---- MODULE Spec2Model ----
(***************************************************************************)
(* A model of conda/models/index_record.py: the Priority wrapper, the      *)
(* FeaturesField normaliser, the derived fields channel / subdir / fn of   *)
(* PackageRef, the identity key behind __eq__ and __hash__, and            *)
(* IndexJsonRecord.combined_depends.                                       *)
(*                                                                         *)
(* Representation.  A Python str is a sequence of one-character strings,   *)
(* so that `in`, replace, split, join and %-formatting are computed.  A    *)
(* URL is a sequence of opaque segments: this file only tests it for       *)
(* emptiness and hands it to Channel.  Every Python value is a record      *)
(* [t, v]: t is the kind ("str", "none", "int", "chan", "unset" for a key  *)
(* missing from the instance __dict__, "raise" for a raised exception) and *)
(* v the payload.                                                          *)
(***************************************************************************)
EXTENDS Integers, Sequences, FiniteSets, TLC

VARIABLES rec, other, op, arg, ret, eqBefore

vars == <<rec, other, op, arg, ret, eqBefore>>

(* ------------------------------ values -------------------------------- *)

Str(s) == [t |-> "str", v |-> s]

None == [t |-> "none", v |-> <<>>]

Unset == [t |-> "unset", v |-> <<>>]

IntVal(n) == [t |-> "int", v |-> <<n>>]

Chan(id) == [t |-> "chan", v |-> <<id>>]

Raise(e) == [t |-> "raise", v |-> <<e>>]

AttributeError == Raise("AttributeError")

AssertionError == Raise("AssertionError")

IsRaise(x) == x.t = "raise"

\* Python truthiness of a str-or-None value: None and '' are falsy
Truthy(x) == x.t = "str" /\ x.v # <<>>

\* sub in s, for two str payloads
Contains(sub, s) ==
  \E i \in 1..(Len(s) - Len(sub) + 1) : SubSeq(s, i, i + Len(sub) - 1) = sub

S_numpy == <<"n", "u", "m", "p", "y">>

S_1_2 == <<"1", ".", "2">>

S_0 == <<"0">>

S_1 == <<"1">>

S_m == <<"m">>

S_noarch == <<"n", "o", "a", "r", "c", "h">>

S_linux == <<"l", "i", "n", "u", "x">>

S_win == <<"w", "i", "n">>

S_x86_64 == <<"x", "8", "6", "_", "6", "4">>

S_x86 == <<"x", "8", "6">>

S_arm64 == <<"a", "r", "m", "6", "4">>

S_64 == <<"6", "4">>

S_32 == <<"3", "2">>

S_dash == <<"-">>

S_linux_64 == <<"l", "i", "n", "u", "x", "-", "6", "4">>

S_win_64 == <<"w", "i", "n", "-", "6", "4">>

S_osx_64 == <<"o", "s", "x", "-", "6", "4">>

S_foo_pkg == <<"f", "o", "o", "-", "1", ".", "0", "-", "0", ".", "t", "a", "r", ".", "b", "z", "2">>

S_bar_pkg == <<"b", "a", "r", ".", "t", "a", "r", ".", "b", "z", "2">>

S_numpy_1_2_0 == <<"n", "u", "m", "p", "y", "-", "1", ".", "2", "-", "0">>

(* --------------------- external collaborators ------------------------- *)

\* the URLs the model assigns: a package URL, a bare channel URL, and a
\* package URL of the same channel in another subdir
U_pkg == <<"https://repo/linux-64/foo-1.0-0.tar.bz2">>

U_chan == <<"https://conda.anaconda.org/conda-forge">>

U_win == <<"https://repo/win-64/foo-1.0-0.tar.bz2">>

\* Channel(url): the attributes of the parsed channel that this file reads
Channel(url) ==
  CASE url = Str(U_pkg) ->
         [canonical_name |-> Str(<<"https://repo">>), subdir |-> Str(S_linux_64),
          package_filename |-> Str(S_foo_pkg)]
    [] url = Str(U_win) ->
         [canonical_name |-> Str(<<"https://repo">>), subdir |-> Str(S_win_64),
          package_filename |-> Str(S_foo_pkg)]
    [] url = Str(U_chan) ->
         [canonical_name |-> Str(<<"conda-forge">>), subdir |-> None,
          package_filename |-> None]
    [] OTHER ->
         [canonical_name |-> Str(<<"<unknown>">>), subdir |-> None,
          package_filename |-> None]

\* the Channel objects a caller stores explicitly; two of them share one
\* canonical name
StoredChannel(c) ==
  CASE c = Chan("defaults") ->
         [canonical_name |-> Str(<<"defaults">>), subdir |-> None,
          package_filename |-> None]
    [] c = Chan("pkgs/free") ->
         [canonical_name |-> Str(<<"defaults">>), subdir |-> None,
          package_filename |-> None]
    [] OTHER ->
         [canonical_name |-> Str(<<"conda-forge">>), subdir |-> None,
          package_filename |-> None]

\* context.subdir, the process-wide default
context_subdir == Str(S_osx_64)

(* ------------------------------ fields -------------------------------- *)

Fields == {"name", "version", "build", "channel", "subdir", "fn", "md5",
           "url", "arch", "platform"}

\* fields declared nullable=True
Nullable == {"md5", "url", "arch", "platform"}

\* fields declared with a default, and the default
Default(f) == IF f = "md5" THEN None ELSE Unset

\* Field.__get__ of the entity framework, as this file relies on it: a key
\* missing from the instance raises AttributeError unless the field has a
\* default; a stored None is returned only by a nullable field
Field_get(instance, f) ==
  LET val == IF instance[f] = Unset THEN Default(f) ELSE instance[f]
  IN  IF val = Unset THEN AttributeError
      ELSE IF val = None /\ f \notin Nullable THEN AttributeError
      ELSE val

\* EnumField platform: instance.platform.name
platform_name(instance) ==
  LET p == Field_get(instance, "platform")
  IN  IF IsRaise(p) \/ p = None THEN AttributeError ELSE p

(* -------------------------- derived fields ---------------------------- *)

ChannelField_get(instance) ==
  LET stored == Field_get(instance, "channel")
  IN  IF ~IsRaise(stored) THEN StoredChannel(stored)
      ELSE LET url == Field_get(instance, "url")
           IN  IF IsRaise(url) THEN Channel(None) ELSE Channel(url)

\* a subdir getter that lets the URL win over an explicitly stored subdir
SubdirField_get_url_first(instance) ==
  LET u == Field_get(instance, "url")
  IN  IF ~IsRaise(u) /\ Truthy(u) THEN Channel(u).subdir
      ELSE IF instance["subdir"] # Unset THEN instance["subdir"]
      ELSE context_subdir

SubdirField_get(instance) ==
  LET stored == Field_get(instance, "subdir")
  IN  IF ~IsRaise(stored) THEN stored
      ELSE
        LET u    == Field_get(instance, "url")
            url  == IF IsRaise(u) THEN None ELSE u
            p    == platform_name(instance)
            a    == Field_get(instance, "arch")
            fail == IsRaise(p) \/ IsRaise(a)
            platform == IF fail THEN None ELSE p
            arch     == IF fail THEN None ELSE a
        IN  IF Truthy(url) THEN Channel(url).subdir
            ELSE IF Truthy(platform) /\ ~Truthy(arch) THEN Str(S_noarch)
            ELSE IF Truthy(platform) THEN
              LET arch2 == IF Contains(S_x86, arch.v)
                           THEN (IF Contains(S_64, arch.v) THEN S_64 ELSE S_32)
                           ELSE arch.v
              IN  Str(platform.v \o S_dash \o arch2)
            ELSE context_subdir

\* a filename getter that lets the URL win over an explicitly stored fn
FilenameField_get_url_first(instance) ==
  LET url == Field_get(instance, "url")
      pf  == IF IsRaise(url) THEN AttributeError ELSE Channel(url).package_filename
  IN  IF ~IsRaise(pf) /\ Truthy(pf) THEN pf
      ELSE IF instance["fn"] # Unset THEN instance["fn"]
      ELSE Str(instance["name"].v \o S_dash \o instance["version"].v
               \o S_dash \o instance["build"].v)

FilenameField_get(instance) ==
  LET stored == Field_get(instance, "fn")
  IN  IF ~IsRaise(stored) THEN stored
      ELSE
        \* name, version and build are required: always stored on a record
        LET url  == Field_get(instance, "url")
            pf   == IF IsRaise(url) THEN AttributeError
                    ELSE Channel(url).package_filename
            fn   == IF IsRaise(pf) \/ ~Truthy(pf)
                    THEN Str(instance["name"].v \o S_dash \o instance["version"].v
                             \o S_dash \o instance["build"].v)
                    ELSE pf
        IN  IF ~Truthy(fn) THEN AssertionError ELSE fn

(* ------------------------- identity and equality ---------------------- *)

\* an identity key that forgets the build string
pkey_without_build(instance) ==
  <<ChannelField_get(instance).canonical_name, SubdirField_get(instance),
    Field_get(instance, "name"), Field_get(instance, "version"), None>>

pkey(instance) ==
  <<ChannelField_get(instance).canonical_name, SubdirField_get(instance),
    Field_get(instance, "name"), Field_get(instance, "version"),
    Field_get(instance, "build")>>

\* hash() of a tuple of str/None: a function of the tuple alone, and not
\* injective
tuple_hash(key) ==
  LET h(x) == IF x.t = "str" THEN Len(x.v) + 1 ELSE 0
  IN  (h(key[1]) + 3 * h(key[2]) + 5 * h(key[3]) + 7 * h(key[4]) + 11 * h(key[5])) % 64

PackageRef_hash(instance) == tuple_hash(pkey(instance))

\* values that are records of this module carry _pkey; any other value
\* raises AttributeError on the attribute lookup
HasPkey(x) == x.t = "record"

\* an equality that answers False for a value without an identity key
PackageRef_eq_lenient(instance, x) ==
  IF ~HasPkey(x) THEN [t |-> "bool", v |-> <<FALSE>>]
  ELSE [t |-> "bool", v |-> <<pkey(instance) = pkey(x.v[1])>>]

PackageRef_eq(instance, x) ==
  IF ~HasPkey(x) THEN AttributeError
  ELSE [t |-> "bool", v |-> <<pkey(instance) = pkey(x.v[1])>>]

(* ----------------------- operations on one record --------------------- *)

\* the values the model assigns to each field of the record under reads
RecordDom ==
  [f \in Fields |->
     CASE f = "name"     -> {Str(S_numpy), Str(<<>>)}
       [] f = "version"  -> {Str(S_1_2), Str(<<>>)}
       [] f = "build"    -> {Str(S_0), Str(<<>>)}
       [] f = "channel"  -> {Chan("defaults")}
       [] f = "subdir"   -> {Str(S_win_64)}
       [] f = "fn"       -> {Str(<<>>), Str(S_bar_pkg)}
       [] f = "md5"      -> {}  \* no derived field reads md5
       [] f = "url"      -> {None, Str(<<>>), Str(U_pkg), Str(U_chan)}
       [] f = "arch"     -> {None, Str(<<>>), Str(S_x86_64), Str(S_x86), Str(S_arm64)}
       [] f = "platform" -> {None, Str(S_linux), Str(S_win)}]

\* Entity.__init__ with only the required fields given
NewRecord(name, version, build) ==
  [f \in Fields |->
     CASE f = "name" -> name [] f = "version" -> version [] f = "build" -> build
       [] OTHER -> Unset]

InitRecord ==
  /\ \E n \in RecordDom["name"], ver \in RecordDom["version"], b \in RecordDom["build"] :
       rec = NewRecord(n, ver, b)
  /\ other = None
  /\ op = "init"
  /\ arg = None
  /\ ret = None
  /\ eqBefore = None

\* Field.__set__: instance.__dict__[name] = value (a valid value of the field)
SetAttr ==
  \E f \in Fields : \E val \in RecordDom[f] :
    /\ rec' = [rec EXCEPT ![f] = val]
    /\ op' = "setattr"
    /\ arg' = Str(<<f>>)
    /\ ret' = None
    /\ UNCHANGED <<other, eqBefore>>

\* a read of subdir that memoises the derived value on the instance
ReadSubdirCaching ==
  /\ ret' = SubdirField_get(rec)
  /\ rec' = IF IsRaise(SubdirField_get(rec)) \/ SubdirField_get(rec).t # "str" THEN rec
            ELSE [rec EXCEPT !["subdir"] = SubdirField_get(rec)]
  /\ op' = "subdir"
  /\ arg' = None
  /\ UNCHANGED <<other, eqBefore>>

\* rec.subdir
ReadSubdir ==
  /\ ret' = SubdirField_get(rec)
  /\ op' = "subdir"
  /\ arg' = None
  /\ UNCHANGED <<rec, other, eqBefore>>

\* rec.fn
ReadFn ==
  /\ ret' = FilenameField_get(rec)
  /\ op' = "fn"
  /\ arg' = None
  /\ UNCHANGED <<rec, other, eqBefore>>

\* rec.channel
ReadChannel ==
  /\ ret' = ChannelField_get(rec).canonical_name
  /\ op' = "channel"
  /\ arg' = None
  /\ UNCHANGED <<rec, other, eqBefore>>

NextRecord == SetAttr \/ ReadSubdir \/ ReadFn \/ ReadChannel

SpecRecord == InitRecord /\ [][NextRecord]_vars

(* ------------------------ claims on one record ------------------------ *)

Stored(instance, f) == instance[f] # Unset

\* the subdir chain as the specification words it: an architecture that is
\* absent (not stored, None or empty) with a platform set gives "noarch"
SubdirChain(r) ==
  LET platformSet == Stored(r, "platform") /\ r["platform"] # None
      archSet     == Stored(r, "arch") /\ Truthy(r["arch"])
  IN  IF Stored(r, "subdir") THEN r["subdir"]
      ELSE IF Stored(r, "url") /\ Truthy(r["url"]) THEN Channel(r["url"]).subdir
      ELSE IF platformSet /\ ~archSet THEN Str(S_noarch)
      ELSE IF platformSet /\ archSet THEN
        Str(r["platform"].v \o S_dash \o
            (IF Contains(S_x86, r["arch"].v) /\ Contains(S_64, r["arch"].v) THEN S_64
             ELSE IF Contains(S_x86, r["arch"].v) THEN S_32
             ELSE r["arch"].v))
      ELSE context_subdir

\* C2: reading subdir returns the first applicable value of the chain
\* stored subdir / subdir of the channel of a non-empty url / "noarch" when
\* platform is set and arch is absent / "<platform>-<arch'>" / the default
\* subdir, for every combination of set and unset subdir, url, platform, arch.
C2_SubdirChain == op = "subdir" => ret = SubdirChain(rec)

\* C2, the part the code keeps: the chain is followed whenever arch is
\* stored (as a string or as None) or platform is not set.
C2_SubdirChainArchStored ==
  (op = "subdir" /\ (Stored(rec, "arch") \/ ~Stored(rec, "platform")
                     \/ rec["platform"] = None))
    => ret = SubdirChain(rec)

\* C3: reading fn on a constructed record never returns an empty string: it
\* returns a non-empty string or fails with an assertion error.
C3_FnNeverEmpty ==
  op = "fn" => (ret = AssertionError \/ (ret.t = "str" /\ ret.v # <<>>))

\* C3, the part the code keeps: a derived fn (no fn stored) is never empty.
C3_DerivedFnNeverEmpty ==
  (op = "fn" /\ ~Stored(rec, "fn")) => (ret.t = "str" /\ ret.v # <<>>)

\* the fn chain as the specification words it
FnChain(r) ==
  IF Stored(r, "fn") THEN r["fn"]
  ELSE IF Stored(r, "url") /\ Truthy(Channel(r["url"]).package_filename)
       THEN Channel(r["url"]).package_filename
  ELSE Str(r["name"].v \o <<"-">> \o r["version"].v \o <<"-">> \o r["build"].v)

\* C4: reading fn returns the stored fn; else the package filename of the
\* channel parsed from url when there is a url and that filename is not
\* empty; else name-version-build.  A record numpy / 1.2 / 0 with neither
\* url nor fn reads "numpy-1.2-0".
C4_FnChain ==
  op = "fn" =>
    /\ ret = FnChain(rec)
    /\ (rec = NewRecord(Str(S_numpy), Str(S_1_2), Str(S_0)) => ret = Str(S_numpy_1_2_0))

C4_Witness ==
  /\ op = "fn"
  /\ rec = NewRecord(Str(S_numpy), Str(S_1_2), Str(S_0))
  /\ ret = Str(S_numpy_1_2_0)

IsRead(o) == o \in {"subdir", "fn", "channel"}

ReadOf(o, r) ==
  CASE o = "subdir" -> SubdirField_get(r)
    [] o = "fn" -> FilenameField_get(r)
    [] OTHER -> ChannelField_get(r).canonical_name

\* C9: a read of channel, subdir or fn leaves every stored field as it was;
\* two consecutive reads of one derived field return the same value; a read
\* that follows an assignment returns the value derived from the stored
\* fields as they are after the assignment.
C9_ReadsArePure ==
  [][/\ IsRead(op') => rec' = rec
     /\ (IsRead(op) /\ op' = op) => ret' = ret
     /\ (op = "setattr" /\ IsRead(op')) => ret' = ReadOf(op', rec)]_vars

C9_Witness ==
  /\ op = "subdir"
  /\ ~Stored(rec, "subdir")
  /\ Stored(rec, "url")
  /\ ret = Str(S_linux_64)

(* ----------------------- operations on two records -------------------- *)

Rec(instance) == [t |-> "record", v |-> <<instance>>]

\* the values the model assigns to the fields of the compared record
PairDom ==
  [f \in Fields |->
     CASE f = "channel"  -> {Chan("defaults"), Chan("pkgs/free"), Chan("conda-forge")}
       [] f = "subdir"   -> {Str(S_linux_64), Str(S_noarch)}
       [] f = "md5"      -> {Str(S_m)}
       [] f = "url"      -> {Str(U_pkg), Str(U_win)}
       [] f = "arch"     -> {Str(S_x86_64)}
       [] f = "platform" -> {Str(S_linux)}
       [] OTHER          -> {}]

\* Entity.__init__(name=..., version=..., build=..., channel=..., subdir=...,
\* md5=...): a keyword that is not given leaves its key out of the instance
NewRecordWith(build, channel, subdir, md5) ==
  [NewRecord(Str(S_numpy), Str(S_1_2), build) EXCEPT
     !["channel"] = channel, !["subdir"] = subdir, !["md5"] = md5]

\* values of other types: a str, an int, None
Foreign == {Str(S_numpy), IntVal(3), None}

InitPair ==
  /\ \E b \in {Str(S_0), Str(S_1)} : rec = NewRecordWith(b, Unset, Unset, Unset)
  /\ \E b \in {Str(S_0), Str(S_1)},
        c \in {Unset, Chan("defaults"), Chan("conda-forge")},
        sd \in {Unset, Str(S_linux_64)},
        m \in {Unset, Str(S_1)} :
       other = Rec(NewRecordWith(b, c, sd, m))
  /\ op = "init"
  /\ arg = None
  /\ ret = None
  /\ eqBefore = None

\* rec.<f> = val, with the outcome of rec == other just before it kept aside
SetAttrPair ==
  \E f \in Fields : \E val \in PairDom[f] :
    /\ rec' = [rec EXCEPT ![f] = val]
    /\ op' = "setattr"
    /\ arg' = Str(<<f>>)
    /\ ret' = None
    /\ eqBefore' = PackageRef_eq(rec, other)
    /\ UNCHANGED other

\* rec == other, hash(rec), hash(other)
Compare ==
  /\ ret' = [t |-> "cmp",
             v |-> <<PackageRef_eq(rec, other), PackageRef_hash(rec),
                     PackageRef_hash(other.v[1])>>]
  /\ op' = "eq"
  /\ arg' = None
  /\ eqBefore' = None
  /\ UNCHANGED <<rec, other>>

\* rec == x for a value x that is no record
CompareForeign ==
  \E x \in Foreign :
    /\ ret' = PackageRef_eq(rec, x)
    /\ op' = "eq_foreign"
    /\ arg' = x
    /\ eqBefore' = None
    /\ UNCHANGED <<rec, other>>

NextPair == SetAttrPair \/ Compare \/ CompareForeign

SpecPair == InitPair /\ [][NextPair]_vars

(* ------------------------ claims on two records ----------------------- *)

\* the identity key read off the stored fields alone
StoredKey(r) ==
  <<StoredChannel(r["channel"]).canonical_name, r["subdir"], r["name"],
    r["version"], r["build"]>>

KeyStored(r) == Stored(r, "channel") /\ Stored(r, "subdir")

\* C1: for two records with channel and subdir stored, r1 == r2 holds iff
\* (channel canonical name, subdir, name, version, build) agree, and then
\* the hashes agree, whatever md5, url, platform and arch hold.
C1_EqIffKey ==
  (op = "eq" /\ KeyStored(rec) /\ KeyStored(other.v[1])) =>
    /\ ret.v[1].t = "bool"
    /\ ret.v[1].v[1] = (StoredKey(rec) = StoredKey(other.v[1]))
    /\ (StoredKey(rec) = StoredKey(other.v[1]) => ret.v[2] = ret.v[3])

C1_Witness ==
  /\ op = "eq"
  /\ KeyStored(rec) /\ KeyStored(other.v[1])
  /\ rec["channel"] # other.v[1]["channel"]
  /\ Stored(rec, "url") /\ Stored(rec, "md5") /\ Stored(rec, "arch")
  /\ rec["md5"] # other.v[1]["md5"]
  /\ ret.v[1].v[1] = TRUE
  /\ ret.v[2] = ret.v[3]

\* C7: comparing a record with a value that has no identity key raises an
\* error; it yields neither True nor False.
C7_ForeignEqRaises ==
  op = "eq_foreign" => (IsRaise(ret) /\ ret = AttributeError /\ ret.t # "bool")

C7_Witness ==
  /\ op = "eq_foreign"
  /\ arg = Str(S_numpy)
  /\ IsRaise(ret)

NonKeyFields == {"url", "md5", "platform", "arch"}

\* C10: once channel and subdir are stored, an assignment to url, md5,
\* platform or arch changes neither the identity key, nor the hash, nor the
\* outcome of comparing with a fixed other record.  (Without a stored subdir
\* or channel an assignment to url can turn an equal pair into an unequal
\* one: C10_Witness is such a state.)
C10_KeyStableOnceStored ==
  [][(KeyStored(rec) /\ op' = "setattr" /\ arg'.v[1] \in NonKeyFields) =>
       /\ pkey(rec') = pkey(rec)
       /\ PackageRef_hash(rec') = PackageRef_hash(rec)
       /\ PackageRef_eq(rec', other') = PackageRef_eq(rec, other)]_vars

C10_Witness ==
  /\ op = "setattr"
  /\ arg = Str(<<"url">>)
  /\ ~Stored(rec, "subdir")
  /\ eqBefore = [t |-> "bool", v |-> <<TRUE>>]
  /\ PackageRef_eq(rec, other) = [t |-> "bool", v |-> <<FALSE>>]

(* ------------------------------ Priority ------------------------------ *)

\* ranks run over -MaxRank .. MaxRank
MaxRank == 4

Ranks == (0 - MaxRank)..MaxRank

\* Priority(priority): self._priority = priority
Priority(priority) == [kind |-> "Priority", p |-> priority]

RawInt(n) == [kind |-> "int", n |-> n]

\* int(x): Priority.__int__ for a Priority, the value itself for an int
Priority_int(x) == IF x.kind = "Priority" THEN x.p ELSE x.n

\* a less-than that also accepts equal ranks
Priority_lt_or_equal(self, x) == self.p <= Priority_int(x)

Priority_lt(self, x) == self.p < Priority_int(x)

Priority_eq(self, x) == self.p = Priority_int(x)

\* functools.total_ordering, from __lt__ and __eq__
Priority_le(self, x) == Priority_lt(self, x) \/ Priority_eq(self, x)

Priority_gt(self, x) == ~Priority_lt(self, x) /\ ~Priority_eq(self, x)

Priority_ge(self, x) == ~Priority_lt(self, x)

InitPriority ==
  /\ \E a \in Ranks, b \in Ranks :
       \/ arg = <<Priority(a), Priority(b)>>
       \/ arg = <<Priority(a), RawInt(b)>>
  /\ rec = None
  /\ other = None
  /\ op = "init"
  /\ ret = None
  /\ eqBefore = None

\* the five comparisons of arg[1] with arg[2]
ComparePriority ==
  /\ op = "init"
  /\ ret' = [lt |-> Priority_lt(arg[1], arg[2]), eq |-> Priority_eq(arg[1], arg[2]),
             le |-> Priority_le(arg[1], arg[2]), gt |-> Priority_gt(arg[1], arg[2]),
             ge |-> Priority_ge(arg[1], arg[2])]
  /\ op' = "cmp"
  /\ UNCHANGED <<rec, other, arg, eqBefore>>

NextPriority == ComparePriority

SpecPriority == InitPriority /\ [][NextPriority]_vars

\* C8: Priority(a) compared with Priority(b) or with the integer b orders as
\* a and b do: < iff a < b, == iff a = b, <=, > and >= likewise, and exactly
\* one of <, ==, > holds.
C8_PriorityOrdersAsInt ==
  op = "cmp" =>
    LET a == arg[1].p
        b == IF arg[2].kind = "Priority" THEN arg[2].p ELSE arg[2].n
    IN  /\ ret.lt = (a < b)
        /\ ret.eq = (a = b)
        /\ ret.le = (a <= b)
        /\ ret.gt = (a > b)
        /\ ret.ge = (a >= b)
        /\ Cardinality({k \in {"lt", "eq", "gt"} : ret[k]}) = 1

C8_Witness ==
  /\ op = "cmp"
  /\ arg = <<Priority(3), RawInt(4)>>
  /\ ret.lt /\ ~ret.eq /\ ~ret.gt

(* ---------------------------- FeaturesField --------------------------- *)

\* feature strings have at most MaxLen characters
MaxLen == 6

FeatureChars == {"a", "b", "c", ",", " "}

RECURSIVE StringsUpTo(_)
StringsUpTo(n) ==
  IF n = 0 THEN {<<>>}
  ELSE LET shorter == StringsUpTo(n - 1)
       IN  shorter \cup {Append(s, c) : s \in {x \in shorter : Len(x) = n - 1},
                                        c \in FeatureChars}

\* s.replace(old, new) for one-character old and new
str_replace(s, old, new) == [i \in 1..Len(s) |-> IF s[i] = old THEN new ELSE s[i]]

\* s.split(sep) for a one-character sep: n separators give n + 1 pieces
RECURSIVE str_split(_, _)
str_split(s, sep) ==
  IF \A i \in 1..Len(s) : s[i] # sep THEN <<s>>
  ELSE LET k == CHOOSE i \in 1..Len(s) :
                  s[i] = sep /\ \A j \in 1..(i - 1) : s[j] # sep
       IN  <<SubSeq(s, 1, k - 1)>> \o str_split(SubSeq(s, k + 1, Len(s)), sep)

\* sep.join(parts)
RECURSIVE str_join(_, _)
str_join(sep, parts) ==
  IF parts = <<>> THEN <<>>
  ELSE IF Len(parts) = 1 THEN parts[1]
  ELSE parts[1] \o sep \o str_join(sep, Tail(parts))

\* box of a str value; ListField.box keeps the pieces as a tuple
FeaturesField_box(val) == str_split(str_replace(val, " ", ","), ",")

FeaturesField_dump(val) == str_join(<<" ">>, val)

InitFeatures ==
  /\ arg \in StringsUpTo(MaxLen)
  /\ rec = None
  /\ other = None
  /\ op = "init"
  /\ ret = None
  /\ eqBefore = None

Box ==
  /\ op = "init"
  /\ ret' = FeaturesField_box(arg)
  /\ op' = "box"
  /\ UNCHANGED <<rec, other, arg, eqBefore>>

Dump ==
  /\ op = "box"
  /\ ret' = FeaturesField_dump(ret)
  /\ op' = "dump"
  /\ UNCHANGED <<rec, other, arg, eqBefore>>

NextFeatures == Box \/ Dump

SpecFeatures == InitFeatures /\ [][NextFeatures]_vars

IsSep(c) == c = "," \/ c = " "

\* the feature names of s: its maximal runs of characters that are neither
\* a comma nor a space, in order
RECURSIVE FeatureNames(_)
FeatureNames(s) ==
  IF s = <<>> THEN <<>>
  ELSE IF IsSep(s[1]) THEN FeatureNames(Tail(s))
  ELSE LET n == IF \E i \in 1..Len(s) : IsSep(s[i])
                THEN (CHOOSE i \in 1..Len(s) :
                        IsSep(s[i]) /\ \A j \in 1..(i - 1) : ~IsSep(s[j])) - 1
                ELSE Len(s)
       IN  <<SubSeq(s, 1, n)>> \o FeatureNames(SubSeq(s, n + 1, Len(s)))

\* names separated by a comma, a space, or a comma followed by a space;
\* the empty string is the empty feature set
ValidFeatureInput(s) ==
  \/ s = <<>>
  \/ /\ ~IsSep(s[1])
     /\ ~IsSep(s[Len(s)])
     /\ \A i \in 1..(Len(s) - 1) :
          (IsSep(s[i]) /\ IsSep(s[i + 1])) =>
            (s[i] = "," /\ s[i + 1] = " " /\ ~IsSep(s[i + 2]))

Canonical(s) == str_join(<<" ">>, FeatureNames(s))

\* C6: box then dump of a string of names separated by commas and/or spaces
\* yields the names in order, duplicates kept, joined by exactly one space,
\* with no empty element; the empty input yields the empty string.
C6_RoundTripCanonical ==
  (op = "dump" /\ ValidFeatureInput(arg)) => ret = Canonical(arg)

\* C6, the part the code keeps: the canonical form comes out when every
\* separator is a single character between two names.
C6_RoundTripSingleSeparators ==
  (op = "dump" /\ arg # <<>> /\ ~IsSep(arg[1]) /\ ~IsSep(arg[Len(arg)])
     /\ \A i \in 1..(Len(arg) - 1) : ~(IsSep(arg[i]) /\ IsSep(arg[i + 1])))
    => ret = Canonical(arg)

\* C6 on the specification's own example: "a, b c" does not come out as "a b c"
C6_ExampleInput ==
  (op = "dump" /\ arg = <<"a", ",", " ", "b", " ", "c">>)
    => ret = <<"a", " ", "b", " ", "c">>

(* --------------------------- combined_depends ------------------------- *)

\* depends and constrains hold at most MaxDeps specifiers each
MaxDeps == 2

\* a raw specifier "name constraint", kept as its two parts
RawSpecs == {<<n, c>> : n \in {"foo", "bar", "baz"}, c \in {">=1", "<2"}}

RECURSIVE SeqsUpTo(_, _)
SeqsUpTo(S, n) ==
  IF n = 0 THEN {<<>>}
  ELSE LET shorter == SeqsUpTo(S, n - 1)
       IN  shorter \cup {Append(s, x) : s \in {y \in shorter : Len(y) = n - 1}, x \in S}

\* MatchSpec(spec, optional=...): the parsed specifier and its name
MatchSpec(spec, optional) == [name |-> spec[1], spec |-> spec, optional |-> optional]

\* a dict is the sequence of its <<key, value>> items in insertion order
dict_has(d, k) == \E i \in 1..Len(d) : d[i][1] = k

\* a d[k] = v that deletes an existing key and inserts it again at the end
dict_set_moving(d, k, val) ==
  LET kept == {i \in 1..Len(d) : d[i][1] # k}
      F[i \in 0..Len(d)] ==
        IF i = 0 THEN <<>>
        ELSE IF i \in kept THEN Append(F[i - 1], d[i]) ELSE F[i - 1]
  IN  Append(F[Len(d)], <<k, val>>)

\* d[k] = v: an existing key keeps its position, a new key goes last
dict_set(d, k, val) ==
  IF dict_has(d, k)
  THEN [i \in 1..Len(d) |-> IF d[i][1] = k THEN <<k, val>> ELSE d[i]]
  ELSE Append(d, <<k, val>>)

\* {ms.name: ms for ms in specs}
RECURSIVE dict_of(_, _)
dict_of(d, specs) ==
  IF specs = <<>> THEN d
  ELSE dict_of(dict_set(d, specs[1].name, specs[1]), Tail(specs))

\* d.update(d2)
RECURSIVE dict_update(_, _)
dict_update(d, d2) ==
  IF d2 = <<>> THEN d
  ELSE dict_update(dict_set(d, d2[1][1], d2[1][2]), Tail(d2))

combined_depends(instance) ==
  LET result == dict_of(<<>>, [i \in 1..Len(instance.depends) |->
                                 MatchSpec(instance.depends[i], FALSE)])
      second == dict_of(<<>>, [i \in 1..Len(instance.constrains) |->
                                 MatchSpec(instance.constrains[i], TRUE)])
      merged == dict_update(result, second)
  IN  [i \in 1..Len(merged) |-> merged[i][2]]

InitDepends ==
  /\ \E d \in SeqsUpTo(RawSpecs, MaxDeps), c \in SeqsUpTo(RawSpecs, MaxDeps) :
       rec = [depends |-> d, constrains |-> c]
  /\ other = None
  /\ op = "init"
  /\ arg = None
  /\ ret = None
  /\ eqBefore = None

\* rec.combined_depends
CombinedDepends ==
  /\ op = "init"
  /\ ret' = combined_depends(rec)
  /\ op' = "combined_depends"
  /\ UNCHANGED <<rec, other, arg, eqBefore>>

NextDepends == CombinedDepends

SpecDepends == InitDepends /\ [][NextDepends]_vars

\* the distinct elements of a sequence, each at its first occurrence
RECURSIVE FirstSeen(_)
FirstSeen(s) ==
  IF s = <<>> THEN <<>>
  ELSE LET init == FirstSeen(SubSeq(s, 1, Len(s) - 1))
           last == s[Len(s)]
       IN  IF \E i \in 1..Len(init) : init[i] = last THEN init ELSE Append(init, last)

NamesOf(specs) == [i \in 1..Len(specs) |-> specs[i][1]]

\* the last entry of specs that names n
LastFor(specs, n) ==
  specs[CHOOSE i \in 1..Len(specs) :
          specs[i][1] = n /\ \A j \in (i + 1)..Len(specs) : specs[j][1] # n]

\* C5: combined_depends holds one specifier per distinct name of depends and
\* constrains, the names in first-seen order over depends then constrains; a
\* name that constrains mentions carries the constrains specifier with
\* optional = true at the position the name already had, or at the end when
\* the name is new; every other name carries its depends specifier.
C5_CombinedDepends ==
  op = "combined_depends" =>
    /\ [i \in 1..Len(ret) |-> ret[i].name]
         = FirstSeen(NamesOf(rec.depends) \o NamesOf(rec.constrains))
    /\ \A i \in 1..Len(ret) :
         IF \E j \in 1..Len(rec.constrains) : rec.constrains[j][1] = ret[i].name
         THEN ret[i].optional /\ ret[i].spec = LastFor(rec.constrains, ret[i].name)
         ELSE ~ret[i].optional /\ ret[i].spec = LastFor(rec.depends, ret[i].name)

\* depends = ["foo >=1", "bar ..."], constrains = ["foo <2"]
C5_Witness ==
  /\ op = "combined_depends"
  /\ rec.depends = <<<<"foo", ">=1">>, <<"bar", ">=1">>>>
  /\ rec.constrains = <<<<"foo", "<2">>>>
  /\ Len(ret) = 2
  /\ ret[1] = [name |-> "foo", spec |-> <<"foo", "<2">>, optional |-> TRUE]
  /\ ret[2].name = "bar"

====
